---- MODULE Spec2Model ----
(***************************************************************************)
(* Model of dbms/src/Core/SettingsCommon.cpp: the setting value cells      *)
(* (SettingNumber, SettingMaxThreads, SettingTimespan, SettingString,      *)
(* SettingChar, SettingEnum), their set / read / serialize operations and  *)
(* the two concurrency disciplines (atomic record, reader-writer lock).    *)
(*                                                                         *)
(* Strings are sequences of one-character strings, wire data are sequences *)
(* of bytes (0..255), an interchange value (Field) is a record             *)
(* [type, val].                                                            *)
(***************************************************************************)
EXTENDS Integers, Sequences, FiniteSets, TLC

VARIABLES
    kind,     \* which setting type the cells of this run are instances of
    res,      \* the function-local static of SettingMaxThreads::getAutoValue
    cores,    \* what getNumberOfPhysicalCPUCores() returns if called now
    cells,    \* the cells "a" and "b": their data records
    last,     \* the last completed call: operation, cell, outcome, state before
    pc,       \* per thread: position inside a multi-step operation
    loc,      \* per thread: the locals of the operation in progress
    mutex     \* per cell: the std::shared_mutex of a lock-based cell

vars == <<kind, res, cores, cells, last, pc, loc, mutex>>

(***************************************************************************)
(* Bounds of the model.                                                    *)
(***************************************************************************)
MaxVal == 2        \* small unsigned values 0..MaxVal are enumerated
MaxCores == 2      \* the detected number of cores is one of 1..MaxCores
NThreads == 2      \* threads of the concurrent specifications
MaxWrite == 1      \* values 0..MaxWrite written by concurrent writers
MaxCharLen == 2    \* strings of up to MaxCharLen characters are given to a character cell

CellNames == {"a", "b"}
Threads == 1..NThreads
None == "none"

\* Unsigned values the sequential model enumerates: the small ones and a few
\* that need two decimal digits or two wire bytes.
WideValues == {10, 300}
UIntValues == (0..MaxVal) \cup WideValues

(***************************************************************************)
(* Text and wire helpers (IO/WriteHelpers.h, IO/ReadHelpers.h,             *)
(* Common/StringUtils.h, IO/VarInt.h).                                     *)
(***************************************************************************)
Digits == <<"0", "1", "2", "3", "4", "5", "6", "7", "8", "9">>

IsDigit(ch) == \E i \in 1..10 : Digits[i] = ch

DigitVal(ch) == (CHOOSE i \in 1..10 : Digits[i] = ch) - 1

\* DB::toString(UInt64): the decimal digits, most significant first.
RECURSIVE toString(_)
toString(n) ==
    IF n < 10 THEN <<Digits[n + 1]>>
    ELSE toString(n \div 10) \o <<Digits[(n % 10) + 1]>>

ParseError == -1

RECURSIVE ParseDigits(_, _)
ParseDigits(s, acc) ==
    IF s = <<>> THEN acc
    ELSE ParseDigits(Tail(s), acc * 10 + DigitVal(Head(s)))

\* parse<UInt64>(x): an unsigned decimal literal, ParseError otherwise.
parseUInt64(s) ==
    IF s # <<>> /\ \A i \in 1..Len(s) : IsDigit(s[i])
    THEN ParseDigits(s, 0)
    ELSE ParseError

\* startsWith(x, prefix)
startsWith(s, prefix) ==
    /\ Len(s) >= Len(prefix)
    /\ SubSeq(s, 1, Len(prefix)) = prefix

\* writeVarUInt: 7 bits per byte, least significant group first, the high bit
\* set on every byte but the last.
RECURSIVE writeVarUInt(_)
writeVarUInt(x) ==
    IF x < 128 THEN <<x>>
    ELSE <<128 + (x % 128)>> \o writeVarUInt(x \div 128)

\* readVarUInt: the inverse walk over the bytes of the buffer.
RECURSIVE readVarUInt(_)
readVarUInt(buf) ==
    IF buf = <<>> THEN 0
    ELSE IF Head(buf) < 128 THEN Head(buf)
    ELSE (Head(buf) - 128) + 128 * readVarUInt(Tail(buf))

\* The number of bytes that readVarUInt consumes from the front of buf.
RECURSIVE VarUIntSize(_)
VarUIntSize(buf) ==
    IF buf = <<>> THEN 0
    ELSE IF Head(buf) < 128 THEN 1
    ELSE 1 + VarUIntSize(Tail(buf))

\* writeBinary(const String & s, buf): writeVarUInt(s.size()), then the bytes
\* of s, kept here as one chunk.
writeStringBinary(s) == writeVarUInt(Len(s)) \o <<s>>

\* readBinary(String & s, buf): readVarUInt(size), then the size bytes that
\* follow it.
readStringBinary(buf) == buf[VarUIntSize(buf) + 1]

(***************************************************************************)
(* 64-bit words. A UInt64 (and the bit pattern of an Int64) is the         *)
(* sequence of its eight bytes, least significant first, so that products  *)
(* wrap at 2^64 as the machine's do.                                       *)
(***************************************************************************)
WordBytes == 8
ByteRange == 256

\* The word of a natural n < 2^31.
RECURSIVE ToBytes(_, _)
ToBytes(n, k) ==
    IF k = 0 THEN <<>>
    ELSE <<n % ByteRange>> \o ToBytes(n \div ByteRange, k - 1)

UInt64Of(n) == ToBytes(n, WordBytes)

ZeroWord == UInt64Of(0)

\* 2^63, the bit pattern of the most negative Int64.
TwoTo63 == [i \in 1..WordBytes |-> IF i = WordBytes THEN 128 ELSE 0]

\* x * f + carry modulo 2^64, for a factor f < 2^23.
RECURSIVE MulWord(_, _, _)
MulWord(x, f, carry) ==
    IF x = <<>> THEN <<>>
    ELSE LET p == Head(x) * f + carry
         IN  <<p % ByteRange>> \o MulWord(Tail(x), f, p \div ByteRange)

\* The quotient bytes 1..i of x / f and the remainder left, by long division
\* from the most significant byte; r is the remainder carried from above.
RECURSIVE DivWordFrom(_, _, _, _)
DivWordFrom(x, i, f, r) ==
    IF i = 0 THEN <<>>
    ELSE LET cur == r * ByteRange + x[i]
         IN  DivWordFrom(x, i - 1, f, cur % f) \o <<cur \div f>>

RECURSIVE ModWordFrom(_, _, _, _)
ModWordFrom(x, i, f, r) ==
    IF i = 0 THEN r
    ELSE ModWordFrom(x, i - 1, f, (r * ByteRange + x[i]) % f)

\* x / f, truncating, and x % f, both unsigned, for a divisor f < 2^23.
DivWord(x, f) == DivWordFrom(x, Len(x), f, 0)
ModWord(x, f) == ModWordFrom(x, Len(x), f, 0)

\* DB::toString(UInt64) of a word.
RECURSIVE toStringWord(_)
toStringWord(x) ==
    LET q == DivWord(x, 10)
    IN  IF q = ZeroWord THEN <<Digits[ModWord(x, 10) + 1]>>
        ELSE toStringWord(q) \o <<Digits[ModWord(x, 10) + 1]>>

\* writeVarUInt(UInt64 x, buf): seven bits to a byte, least significant
\* first, the high bit set on every byte that has a successor.
RECURSIVE writeVarUIntWord(_)
writeVarUIntWord(x) ==
    LET q == DivWord(x, 128)
    IN  IF q = ZeroWord THEN <<ModWord(x, 128)>>
        ELSE <<128 + ModWord(x, 128)>> \o writeVarUIntWord(q)

\* readVarUInt(UInt64 & x, buf): the seven-bit groups, least significant
\* first, up to the first byte without the high bit.
RECURSIVE readVarUIntWord(_)
readVarUIntWord(buf) ==
    IF buf = <<>> THEN ZeroWord
    ELSE IF Head(buf) < 128 THEN UInt64Of(Head(buf))
    ELSE MulWord(readVarUIntWord(Tail(buf)), 128, Head(buf) - 128)

\* 2^64 - 1, which is also the bit pattern of the Int64 -1.
MaxWord == [i \in 1..WordBytes |-> ByteRange - 1]

\* ~x, x + 1 and -x on a word; the sign of the Int64 with bit pattern x.
NotWord(x) == [i \in 1..Len(x) |-> (ByteRange - 1) - x[i]]
NegWord(x) == MulWord(NotWord(x), 1, 1)
IsNegative(x) == x[WordBytes] >= 128

\* DB::toString(Int64) of a word.
toStringInt64(x) ==
    IF IsNegative(x) THEN <<"-">> \o toStringWord(NegWord(x)) ELSE toStringWord(x)

\* parse<UInt64>(x) and parse<Int64>(x) into a word: the literals and their
\* values.
IsUInt64Literal(s) == s # <<>> /\ \A i \in 1..Len(s) : IsDigit(s[i])

IsInt64Literal(s) ==
    IF s # <<>> /\ Head(s) = "-" THEN IsUInt64Literal(Tail(s)) ELSE IsUInt64Literal(s)

RECURSIVE ParseDigitsWord(_, _)
ParseDigitsWord(s, acc) ==
    IF s = <<>> THEN acc
    ELSE ParseDigitsWord(Tail(s), MulWord(acc, 10, DigitVal(Head(s))))

parseWord(s) == ParseDigitsWord(s, ZeroWord)

parseInt64(s) == IF Head(s) = "-" THEN NegWord(parseWord(Tail(s))) ELSE parseWord(s)

\* writeVarInt(Int64 x, buf): writeVarUInt((x >> 63) ^ (x << 1), buf), and
\* readVarInt, its inverse: (x >> 1) ^ -(x & 1).
ZigZag(x) == IF IsNegative(x) THEN NotWord(MulWord(x, 2, 0)) ELSE MulWord(x, 2, 0)
UnZigZag(u) == IF ModWord(u, 2) = 1 THEN NotWord(DivWord(u, 2)) ELSE DivWord(u, 2)

writeVarInt(x) == writeVarUIntWord(ZigZag(x))
readVarInt(buf) == UnZigZag(readVarUIntWord(buf))

\* Interchange values (Field).
FieldUInt64(x) == [type |-> "UInt64", val |-> x]
FieldString(s) == [type |-> "String", val |-> s]
FieldFloat64 == [type |-> "Float64", val |-> None]

\* The outcome of a set-family call: the record to store, or the error raised
\* before any store.
Stored(d) == [ok |-> TRUE, d |-> d, err |-> None]
Thrown(d, e) == [ok |-> FALSE, d |-> d, err |-> e]

(***************************************************************************)
(* SettingMaxThreads: the record {value, is_auto, changed} and the pure    *)
(* part of each method.                                                    *)
(***************************************************************************)
\* The field w is not a field of the program: it names the three values that
\* the one store which built the record put together, and a record is whole
\* while its fields are those values.
MTData(v, a, c) == [value |-> v, is_auto |-> a, changed |-> c, w |-> <<v, a, c>>]

Whole(d) == d.w = <<d.value, d.is_auto, d.changed>>

AutoKeyword == <<"a", "u", "t", "o">>

\* The static of getAutoValue() before its first call.
NotDetected == 0

\* getNumberOfPhysicalCPUCores(): the hardware view at the moment of the call.
getNumberOfPhysicalCPUCores == cores

\* A getAutoValue() that asks the hardware on every call.
getAutoValue_uncached == getNumberOfPhysicalCPUCores

\* getAutoValue(): the static initialised once by getNumberOfPhysicalCPUCores().
getAutoValue == res

\* toString(): "auto(<value>)" in Auto, the plain number otherwise.
MaxThreads_toString(d) ==
    IF d.is_auto
    THEN AutoKeyword \o <<"(">> \o toString(d.value) \o <<")">>
    ELSE toString(d.value)

\* A toField() that returns the materialised value in Auto as well.
MaxThreads_toField_materialised(d) == FieldUInt64(d.value)

\* toField(): d.is_auto ? 0 : d.value
MaxThreads_toField(d) == FieldUInt64(IF d.is_auto THEN 0 ELSE d.value)

\* serialize(): writeVarUInt(d.is_auto ? 0 : d.value, buf)
MaxThreads_serialize(d) == writeVarUInt(IF d.is_auto THEN 0 ELSE d.value)

\* A set(UInt64) that stores x as it is, without materialising the auto value.
MaxThreads_setValue_zeroStored(x) == MTData(x, x = 0, TRUE)

\* set(UInt64 x): data.store({x ? x : getAutoValue(), x == 0, true})
MaxThreads_setValue(x) ==
    MTData(IF x # 0 THEN x ELSE getAutoValue, x = 0, TRUE)

\* setAuto(): data.store({getAutoValue(), true, isChanged()}), given the flag
\* that isChanged() returned.
MaxThreads_setAutoValue(c) == MTData(getAutoValue, TRUE, c)

\* setChanged(changed): data.store({d.value, d.is_auto, changed}), given the
\* record d that the load returned.
MaxThreads_setChangedValue(d, c) == MTData(d.value, d.is_auto, c)

\* A set(const String &) that takes only the bare keyword for Auto.
MaxThreads_setStringResult_exactKeyword(d, s) ==
    IF s = AutoKeyword
    THEN Stored(MaxThreads_setAutoValue(d.changed))
    ELSE LET x == parseUInt64(s)
         IN  IF x = ParseError THEN Thrown(d, "CANNOT_PARSE_NUMBER")
             ELSE Stored(MaxThreads_setValue(x))

\* set(const String & x), run to completion on a cell holding d.
MaxThreads_setStringResult(d, s) ==
    IF startsWith(s, AutoKeyword)
    THEN Stored(MaxThreads_setAutoValue(d.changed))
    ELSE LET x == parseUInt64(s)
         IN  IF x = ParseError THEN Thrown(d, "CANNOT_PARSE_NUMBER")
             ELSE Stored(MaxThreads_setValue(x))

\* safeGet<UInt64>(x)
safeGetUInt64(f) == IF f.type = "UInt64" THEN f.val ELSE ParseError

\* set(const Field & x), run to completion on a cell holding d.
MaxThreads_setFieldResult(d, f) ==
    IF f.type = "String" THEN MaxThreads_setStringResult(d, f.val)
    ELSE LET x == safeGetUInt64(f)
         IN  IF x = ParseError THEN Thrown(d, "BAD_GET")
             ELSE Stored(MaxThreads_setValue(x))

\* deserialize(buf): readVarUInt(x, buf); set(x)
MaxThreads_deserializeResult(buf) == Stored(MaxThreads_setValue(readVarUInt(buf)))

(***************************************************************************)
(* Inputs of the sequential calls.                                         *)
(***************************************************************************)
MaxThreadsStrings ==
    {toString(x) : x \in UIntValues}
        \cup {AutoKeyword, AutoKeyword \o <<"x">>, <<>>, <<"x">>}
        \cup {AutoKeyword \o <<"(">> \o toString(x) \o <<")">> : x \in 1..MaxVal}

MaxThreadsFields ==
    {FieldUInt64(x) : x \in {0, MaxVal, 300}}
        \cup {FieldString(s) : s \in {AutoKeyword, toString(MaxVal), <<"x">>}}
        \cup {FieldFloat64}

(***************************************************************************)
(* Sequential calls: each action is one whole call on one cell, made while *)
(* no other thread is inside an operation.                                 *)
(***************************************************************************)
Quiet == \A t \in Threads : pc[t] = "idle"

\* A completed call op(arg) on cell c with outcome r.
Call(op, c, r, arg) ==
    /\ Quiet
    /\ cells' = [cells EXCEPT ![c] = r.d]
    /\ last' = [op |-> op, cell |-> c, ok |-> r.ok, err |-> r.err,
                pre |-> cells[c], arg |-> arg]
    /\ UNCHANGED <<kind, res, cores, pc, loc, mutex>>

MaxThreads_set(c, x) ==
    /\ kind = "MaxThreads"
    /\ Call("set", c, Stored(MaxThreads_setValue(x)), x)

MaxThreads_setField(c, f) ==
    /\ kind = "MaxThreads"
    /\ Call("set_field", c, MaxThreads_setFieldResult(cells[c], f), f)

MaxThreads_setString(c, s) ==
    /\ kind = "MaxThreads"
    /\ Call("set_string", c, MaxThreads_setStringResult(cells[c], s), s)

MaxThreads_deserialize(c, buf) ==
    /\ kind = "MaxThreads"
    /\ Call("deserialize", c, MaxThreads_deserializeResult(buf), buf)

MaxThreads_setAuto(c) ==
    /\ kind = "MaxThreads"
    /\ Call("setAuto", c, Stored(MaxThreads_setAutoValue(cells[c].changed)), None)

MaxThreads_setChanged(c, b) ==
    /\ kind = "MaxThreads"
    /\ Call("setChanged", c, Stored(MaxThreads_setChangedValue(cells[c], b)), b)

\* operator=: data.store(o.data.load())
MaxThreads_assign(c, o) ==
    /\ kind = "MaxThreads"
    /\ Call("assign", c, Stored(cells[o]), cells[o])

\* c.set(o.toField()), c.deserialize(o.serialize()), c.set(o.toString()):
\* the output of a read of cell o fed back into cell c.
MaxThreads_setFromField(c, o) ==
    /\ kind = "MaxThreads"
    /\ Call("set_toField", c,
            MaxThreads_setFieldResult(cells[c], MaxThreads_toField(cells[o])),
            cells[o])

MaxThreads_deserializeFromSerialize(c, o) ==
    /\ kind = "MaxThreads"
    /\ Call("deserialize_serialize", c,
            MaxThreads_deserializeResult(MaxThreads_serialize(cells[o])),
            cells[o])

MaxThreads_setFromString(c, o) ==
    /\ kind = "MaxThreads"
    /\ Call("set_toString", c,
            MaxThreads_setStringResult(cells[c], MaxThreads_toString(cells[o])),
            cells[o])

MaxThreadsNext ==
    \E c \in CellNames :
        \/ \E x \in UIntValues : MaxThreads_set(c, x)
        \/ \E f \in MaxThreadsFields : MaxThreads_setField(c, f)
        \/ \E s \in MaxThreadsStrings : MaxThreads_setString(c, s)
        \/ \E x \in UIntValues : MaxThreads_deserialize(c, writeVarUInt(x))
        \/ MaxThreads_setAuto(c)
        \/ \E b \in BOOLEAN : MaxThreads_setChanged(c, b)
        \/ \E o \in CellNames :
              \/ MaxThreads_assign(c, o)
              \/ MaxThreads_setFromField(c, o)
              \/ MaxThreads_deserializeFromSerialize(c, o)
              \/ MaxThreads_setFromString(c, o)

(***************************************************************************)
(* SettingNumber<UInt64>, SettingNumber<Int64> and SettingNumber<bool>:    *)
(* the record {value, changed}. An integer value is its 64-bit word.       *)
(***************************************************************************)
Data(v, c) == [value |-> v, changed |-> c]

NumberKinds == {"UInt64", "Int64"}

\* set(Type x): data.store(Data{x, true})
Number_setValue(x) == Data(x, TRUE)

\* toString(): DB::toString(getValue())
Number_toStringValue(k, v) == IF k = "Int64" THEN toStringInt64(v) ELSE toStringWord(v)

\* set(const String & x): set(parse<Type>(x))
Number_setStringResult(k, d, s) ==
    IF k = "Int64"
    THEN IF IsInt64Literal(s) THEN Stored(Number_setValue(parseInt64(s)))
         ELSE Thrown(d, "CANNOT_PARSE_NUMBER")
    ELSE IF IsUInt64Literal(s) THEN Stored(Number_setValue(parseWord(s)))
         ELSE Thrown(d, "CANNOT_PARSE_NUMBER")

\* serialize(buf): writeVarUInt(static_cast<UInt64>(getValue()), buf) for an
\* unsigned type, writeVarInt(static_cast<Int64>(getValue()), buf) for a
\* signed one.
Number_serializeValue(k, v) == IF k = "Int64" THEN writeVarInt(v) ELSE writeVarUIntWord(v)

\* A deserialize that reads every integer as unsigned.
Number_deserializeResult_unsigned(k, buf) == Stored(Number_setValue(readVarUIntWord(buf)))

\* deserialize(buf): readVarUInt(x, buf) or readVarInt(x, buf), then
\* set(static_cast<Type>(x))
Number_deserializeResult(k, buf) ==
    IF k = "Int64" THEN Stored(Number_setValue(readVarInt(buf)))
    ELSE Stored(Number_setValue(readVarUIntWord(buf)))

Number_set(c, x) ==
    /\ kind \in NumberKinds
    /\ Call("set", c, Stored(Number_setValue(x)), x)

Number_setString(c, s) ==
    /\ kind \in NumberKinds
    /\ Call("set_string", c, Number_setStringResult(kind, cells[c], s), s)

Number_deserialize(c, buf) ==
    /\ kind \in NumberKinds
    /\ Call("deserialize", c, Number_deserializeResult(kind, buf), buf)

\* toString() const and serialize() const: the cell is left as it is and the
\* output is recorded.
Number_toString(c) ==
    /\ kind \in NumberKinds
    /\ Call("toString", c, Stored(cells[c]), Number_toStringValue(kind, cells[c].value))

Number_serialize(c) ==
    /\ kind \in NumberKinds
    /\ Call("serialize", c, Stored(cells[c]), Number_serializeValue(kind, cells[c].value))

\* c.deserialize(o.serialize()) and c.set(o.toString())
Number_deserializeFromSerialize(c, o) ==
    /\ kind \in NumberKinds
    /\ Call("deserialize_serialize", c,
            Number_deserializeResult(kind, Number_serializeValue(kind, cells[o].value)),
            cells[o])

Number_setFromString(c, o) ==
    /\ kind \in NumberKinds
    /\ Call("set_toString", c,
            Number_setStringResult(kind, cells[c], Number_toStringValue(kind, cells[o].value)),
            cells[o])

\* The values given to set(Type): 0, 1, a value of two bytes, 2^63 (the
\* least Int64), 2^64 - 1 (the Int64 -1), and the greatest Int64.
UInt64Values == {ZeroWord, UInt64Of(1), UInt64Of(300), TwoTo63, MaxWord}
Int64Values == UInt64Values \cup {NotWord(TwoTo63)}

NumberValues(k) == IF k = "Int64" THEN Int64Values ELSE UInt64Values

NumberStrings == {toString(x) : x \in UIntValues} \cup {<<>>, <<"x">>}

\* The strings given to set(const String &) of an integer cell.
ScalarStrings ==
    {<<"0">>, <<"1">>, <<"3", "0", "0">>, <<"-", "1">>, <<"-">>, <<>>, <<"x">>}

\* The buffers given to deserialize.
UInt64Buffers == {writeVarUIntWord(x) : x \in UInt64Values}
Int64Buffers == {writeVarInt(x) : x \in Int64Values}

NumberBuffers(k) == IF k = "Int64" THEN Int64Buffers ELSE UInt64Buffers

NumberNext ==
    \E c \in CellNames :
        \/ \E x \in NumberValues(kind) : Number_set(c, x)
        \/ \E s \in ScalarStrings : Number_setString(c, s)
        \/ \E buf \in NumberBuffers(kind) : Number_deserialize(c, buf)
        \/ Number_toString(c)
        \/ Number_serialize(c)
        \/ \E o \in CellNames :
               \/ Number_deserializeFromSerialize(c, o)
               \/ Number_setFromString(c, o)

\* equalsCaseInsensitive(a, b), through the lower-case form of a letter.
toLower(ch) ==
    CASE ch = "T" -> "t" [] ch = "R" -> "r" [] ch = "U" -> "u"
      [] ch = "E" -> "e" [] ch = "F" -> "f" [] ch = "A" -> "a"
      [] ch = "L" -> "l" [] ch = "S" -> "s" [] OTHER -> ch

equalsCaseInsensitive(a, b) == toLower(a) = toLower(b)

\* checkStringCaseInsensitive(s, buf) on a buffer over the string x standing
\* at position pos: it walks the keyword, stops at the end of the buffer or
\* at the first character that differs, and leaves the buffer where it
\* stopped.
RECURSIVE checkStringCaseInsensitive(_, _, _)
checkStringCaseInsensitive(s, x, pos) ==
    IF s = <<>> THEN [ok |-> TRUE, pos |-> pos]
    ELSE IF pos > Len(x) THEN [ok |-> FALSE, pos |-> pos]
    ELSE IF ~equalsCaseInsensitive(Head(s), x[pos]) THEN [ok |-> FALSE, pos |-> pos]
    ELSE checkStringCaseInsensitive(Tail(s), x, pos + 1)

KeywordTrue == <<"t", "r", "u", "e">>
KeywordFalse == <<"f", "a", "l", "s", "e">>

\* SettingNumber<bool>::set(const String & x)
Bool_setStringResult(d, x) ==
    IF Len(x) = 1
    THEN IF x[1] = "0" THEN Stored(Number_setValue(FALSE))
         ELSE IF x[1] = "1" THEN Stored(Number_setValue(TRUE))
         ELSE Thrown(d, "CANNOT_PARSE_BOOL")
    ELSE LET t == checkStringCaseInsensitive(KeywordTrue, x, 1)
         IN  IF t.ok THEN Stored(Number_setValue(TRUE))
             ELSE LET f == checkStringCaseInsensitive(KeywordFalse, x, t.pos)
                  IN  IF f.ok THEN Stored(Number_setValue(FALSE))
                      ELSE Thrown(d, "CANNOT_PARSE_BOOL")

\* DB::toString(bool): "1" or "0".
Bool_toStringValue(v) == IF v THEN <<"1">> ELSE <<"0">>

\* serialize(buf), bool: writeVarUInt(static_cast<UInt64>(getValue()), buf)
Bool_serializeValue(v) == writeVarUIntWord(UInt64Of(IF v THEN 1 ELSE 0))

\* deserialize(buf), bool: readVarUInt(x, buf); set(static_cast<bool>(x))
Bool_deserializeResult(buf) == Stored(Number_setValue(readVarUIntWord(buf) # ZeroWord))

Bool_set(c, x) ==
    /\ kind = "Bool"
    /\ Call("set", c, Stored(Number_setValue(x)), x)

Bool_setString(c, s) ==
    /\ kind = "Bool"
    /\ Call("set_string", c, Bool_setStringResult(cells[c], s), s)

Bool_deserialize(c, buf) ==
    /\ kind = "Bool"
    /\ Call("deserialize", c, Bool_deserializeResult(buf), buf)

Bool_toString(c) ==
    /\ kind = "Bool"
    /\ Call("toString", c, Stored(cells[c]), Bool_toStringValue(cells[c].value))

Bool_serialize(c) ==
    /\ kind = "Bool"
    /\ Call("serialize", c, Stored(cells[c]), Bool_serializeValue(cells[c].value))

Bool_deserializeFromSerialize(c, o) ==
    /\ kind = "Bool"
    /\ Call("deserialize_serialize", c,
            Bool_deserializeResult(Bool_serializeValue(cells[o].value)), cells[o])

Bool_setFromString(c, o) ==
    /\ kind = "Bool"
    /\ Call("set_toString", c,
            Bool_setStringResult(cells[c], Bool_toStringValue(cells[o].value)), cells[o])

\* Inputs of SettingNumber<bool>::set(string): every string of at most
\* MaxBoolLen characters, every spelling of the two keywords in either case,
\* and the keywords with a character cut off, added or put in front.
MaxBoolLen == 2
BoolAlphabet == {"0", "1", "2", "t"}

StringsUpTo(S, n) == UNION {[1..k -> S] : k \in 0..n}

Spellings(kw) ==
    {s \in [1..Len(kw) -> {"t", "r", "u", "e", "f", "a", "l", "s",
                           "T", "R", "U", "E", "F", "A", "L", "S"}] :
        \A i \in 1..Len(kw) : toLower(s[i]) = kw[i]}

BoolStrings ==
    StringsUpTo(BoolAlphabet, MaxBoolLen)
        \cup Spellings(KeywordTrue) \cup Spellings(KeywordFalse)
        \cup {SubSeq(KeywordTrue, 1, 3), SubSeq(KeywordFalse, 1, 4),
              KeywordTrue \o <<"x">>, KeywordFalse \o <<"x">>,
              KeywordTrue \o <<"1">>, <<"t">> \o KeywordFalse,
              <<"x">> \o KeywordTrue, <<"y", "e", "s">>,
              KeywordTrue \o KeywordFalse}

BoolNext ==
    \E c \in CellNames :
        \/ \E x \in BOOLEAN : Bool_set(c, x)
        \/ \E s \in BoolStrings : Bool_setString(c, s)
        \/ \E x \in 0..2 : Bool_deserialize(c, writeVarUInt(x))
        \/ Bool_toString(c)
        \/ Bool_serialize(c)
        \/ \E o \in CellNames :
               \/ Bool_deserializeFromSerialize(c, o)
               \/ Bool_setFromString(c, o)

(***************************************************************************)
(* SettingTimespan<io_unit>, SettingString and SettingChar, one call at a  *)
(* time.                                                                   *)
(***************************************************************************)
\* microseconds_per_io_unit of the two instantiations.
microseconds_per_io_unit(k) == IF k = "TimespanSecond" THEN 1000000 ELSE 1000

TimespanKinds == {"TimespanSecond", "TimespanMillisecond"}

\* The duration is the word of its microsecond count (Poco::Timespan keeps an
\* Int64; its bit pattern is kept here).
\* set(const Poco::Timespan & x): value = x; changed = true
Timespan_setValue(x) == Data(x, TRUE)

\* set(UInt64 x): set(Poco::Timespan(x * microseconds_per_io_unit))
Timespan_setUInt64Value(k, x) ==
    Timespan_setValue(MulWord(x, microseconds_per_io_unit(k), 0))

\* set(const String & x): set(parse<UInt64>(x))
Timespan_setStringResult(k, d, s) ==
    LET x == parseUInt64(s)
    IN  IF x = ParseError THEN Thrown(d, "CANNOT_PARSE_NUMBER")
        ELSE Stored(Timespan_setUInt64Value(k, UInt64Of(x)))

\* toField(): getValue().totalMicroseconds() / microseconds_per_io_unit
Timespan_toFieldValue(k, v) == DivWord(v, microseconds_per_io_unit(k))

\* toString(): DB::toString(getValue().totalMicroseconds() / microseconds_per_io_unit)
Timespan_toStringValue(k, v) == toStringWord(DivWord(v, microseconds_per_io_unit(k)))

\* serialize(buf): writeVarUInt(getValue().totalMicroseconds() / microseconds_per_io_unit, buf)
Timespan_serializeValue(k, v) ==
    writeVarUIntWord(DivWord(v, microseconds_per_io_unit(k)))

\* deserialize(buf): UInt64 x = 0; readVarUInt(x, buf); set(x)
Timespan_deserializeResult(k, buf) == Stored(Timespan_setUInt64Value(k, readVarUIntWord(buf)))

Timespan_set(c, x) ==
    /\ kind \in TimespanKinds
    /\ Call("set", c, Stored(Timespan_setUInt64Value(kind, x)), x)

Timespan_setTimespan(c, d) ==
    /\ kind \in TimespanKinds
    /\ Call("set_timespan", c, Stored(Timespan_setValue(d)), d)

Timespan_setString(c, s) ==
    /\ kind \in TimespanKinds
    /\ Call("set_string", c, Timespan_setStringResult(kind, cells[c], s), s)

Timespan_deserialize(c, buf) ==
    /\ kind \in TimespanKinds
    /\ Call("deserialize", c, Timespan_deserializeResult(kind, buf), buf)

\* toString(), toField() and serialize() const: the cell is left as it is and
\* the output is recorded.
Timespan_toString(c) ==
    /\ kind \in TimespanKinds
    /\ Call("toString", c, Stored(cells[c]), Timespan_toStringValue(kind, cells[c].value))

Timespan_toField(c) ==
    /\ kind \in TimespanKinds
    /\ Call("toField", c, Stored(cells[c]), Timespan_toFieldValue(kind, cells[c].value))

Timespan_serialize(c) ==
    /\ kind \in TimespanKinds
    /\ Call("serialize", c, Stored(cells[c]), Timespan_serializeValue(kind, cells[c].value))

\* c.deserialize(o.serialize())
Timespan_deserializeFromSerialize(c, o) ==
    /\ kind \in TimespanKinds
    /\ Call("deserialize_serialize", c,
            Timespan_deserializeResult(kind, Timespan_serializeValue(kind, cells[o].value)),
            cells[o])

\* The numbers given to set(UInt64): the small ones and 2^63.
TimespanNumbers == {UInt64Of(n) : n \in UIntValues} \cup {TwoTo63}

\* The durations given to set(const Poco::Timespan &), in microseconds: one
\* and a half units and one microsecond.
TimespanDurations(k) ==
    {UInt64Of(microseconds_per_io_unit(k) + microseconds_per_io_unit(k) \div 2),
     UInt64Of(1)}

TimespanNext ==
    \E c \in CellNames :
        \/ \E x \in TimespanNumbers : Timespan_set(c, x)
        \/ \E d \in TimespanDurations(kind) : Timespan_setTimespan(c, d)
        \/ \E s \in NumberStrings : Timespan_setString(c, s)
        \/ \E x \in UIntValues : Timespan_deserialize(c, writeVarUInt(x))
        \/ Timespan_toString(c)
        \/ Timespan_toField(c)
        \/ Timespan_serialize(c)
        \/ \E o \in CellNames : Timespan_deserializeFromSerialize(c, o)

\* SettingString::set(const String & x): value = x; changed = true
String_setValue(x) == Data(x, TRUE)

\* SettingString::set(const Field & x): set(safeGet<const String &>(x))
String_setFieldResult(d, f) ==
    IF f.type = "String" THEN Stored(String_setValue(f.val))
    ELSE Thrown(d, "BAD_GET")

String_set(c, s) ==
    /\ kind = "String"
    /\ Call("set_string", c, Stored(String_setValue(s)), s)

String_setField(c, f) ==
    /\ kind = "String"
    /\ Call("set_field", c, String_setFieldResult(cells[c], f), f)

TextStrings == {<<>>, <<"x">>, <<"x", "y">>, AutoKeyword}

StringNext ==
    \E c \in CellNames :
        \/ \E s \in TextStrings : String_set(c, s)
        \/ \E f \in {FieldString(s) : s \in TextStrings} \cup {FieldUInt64(1)} :
              String_setField(c, f)

\* The null character '\0'.
NUL == "NUL"

\* SettingChar::set(char x): data.store({x, true})
Char_setValue(x) == Data(x, TRUE)

\* SettingChar::toString(): String(1, getValue()), one character whatever
\* the character is.
Char_toStringValue(x) == <<x>>

\* SettingChar::toField(): return toString()
Char_toFieldValue(x) == FieldString(Char_toStringValue(x))

\* SettingChar::serialize(buf): writeBinary(toString(), buf)
Char_serializeValue(x) == writeStringBinary(Char_toStringValue(x))

\* A set(const String & x) that keeps the first character of a longer string.
Char_setStringResult_truncating(d, x) ==
    Stored(Data(IF Len(x) >= 1 THEN x[1] ELSE NUL, TRUE))

\* SettingChar::set(const String & x)
Char_setStringResult(d, x) ==
    IF Len(x) > 1 THEN Thrown(d, "SIZE_OF_FIXED_STRING_DOESNT_MATCH")
    ELSE Stored(Char_setValue(IF Len(x) = 1 THEN x[1] ELSE NUL))

Char_set(c, x) ==
    /\ kind = "Char"
    /\ Call("set", c, Stored(Char_setValue(x)), x)

Char_setString(c, s) ==
    /\ kind = "Char"
    /\ Call("set_string", c, Char_setStringResult(cells[c], s), s)

\* SettingChar::set(const Field & x): set(safeGet<const String &>(x))
Char_setFieldResult(d, f) ==
    IF f.type = "String" THEN Char_setStringResult(d, f.val)
    ELSE Thrown(d, "BAD_GET")

\* SettingChar::deserialize(buf): readBinary(s, buf); set(s)
Char_deserializeResult(d, buf) == Char_setStringResult(d, readStringBinary(buf))

Char_setField(c, f) ==
    /\ kind = "Char"
    /\ Call("set_field", c, Char_setFieldResult(cells[c], f), f)

Char_deserialize(c, buf) ==
    /\ kind = "Char"
    /\ Call("deserialize", c, Char_deserializeResult(cells[c], buf), buf)

\* toString(), toField() and serialize() const: the cell is left as it is and
\* the output is recorded.
Char_toString(c) ==
    /\ kind = "Char"
    /\ Call("toString", c, Stored(cells[c]), Char_toStringValue(cells[c].value))

Char_toField(c) ==
    /\ kind = "Char"
    /\ Call("toField", c, Stored(cells[c]), Char_toFieldValue(cells[c].value))

Char_serialize(c) ==
    /\ kind = "Char"
    /\ Call("serialize", c, Stored(cells[c]), Char_serializeValue(cells[c].value))

Chars == {"x", "y", ","}

CharStrings == StringsUpTo(Chars, MaxCharLen)

CharNext ==
    \E c \in CellNames :
        \/ \E x \in Chars \cup {NUL} : Char_set(c, x)
        \/ \E s \in CharStrings : Char_setString(c, s)
        \/ \E f \in {FieldString(s) : s \in CharStrings} \cup {FieldUInt64(1)} :
              Char_setField(c, f)
        \/ \E s \in CharStrings : Char_deserialize(c, writeStringBinary(s))
        \/ Char_toString(c)
        \/ Char_toField(c)
        \/ Char_serialize(c)

(***************************************************************************)
(* SettingEnum<EnumType, Tag>: the name tables that the LIST_OF_NAMES      *)
(* macros give to IMPLEMENT_SETTING_ENUM, as sequences of                  *)
(* <<member, keyword>>. A keyword is only ever compared for equality, so    *)
(* it is an atom here.                                                     *)
(***************************************************************************)
LOAD_BALANCING_LIST_OF_NAMES ==
    << <<"RANDOM", "random">>, <<"NEAREST_HOSTNAME", "nearest_hostname">>,
       <<"IN_ORDER", "in_order">>, <<"FIRST_OR_RANDOM", "first_or_random">> >>

JOIN_STRICTNESS_LIST_OF_NAMES ==
    << <<"Unspecified", "">>, <<"ALL", "ALL">>, <<"ANY", "ANY">> >>

TOTALS_MODE_LIST_OF_NAMES ==
    << <<"BEFORE_HAVING", "before_having">>,
       <<"AFTER_HAVING_EXCLUSIVE", "after_having_exclusive">>,
       <<"AFTER_HAVING_INCLUSIVE", "after_having_inclusive">>,
       <<"AFTER_HAVING_AUTO", "after_having_auto">> >>

OVERFLOW_MODE_LIST_OF_NAMES ==
    << <<"THROW", "throw">>, <<"BREAK", "break">> >>

OVERFLOW_MODE_LIST_OF_NAMES_WITH_ANY ==
    << <<"THROW", "throw">>, <<"BREAK", "break">>, <<"ANY", "any">> >>

DISTRIBUTED_PRODUCT_MODE_LIST_OF_NAMES ==
    << <<"DENY", "deny">>, <<"LOCAL", "local">>, <<"GLOBAL", "global">>,
       <<"ALLOW", "allow">> >>

DATE_TIME_INPUT_FORMAT_LIST_OF_NAMES ==
    << <<"Basic", "basic">>, <<"BestEffort", "best_effort">> >>

LOGS_LEVEL_LIST_OF_NAMES ==
    << <<"none", "none">>, <<"error", "error">>, <<"warning", "warning">>,
       <<"information", "information">>, <<"debug", "debug">>,
       <<"trace", "trace">> >>

\* The instantiations: SettingEnum<ENUM_NAME, TAG>, its table and the error
\* code of an unexpected name.
EnumInstances ==
    { [name |-> "LoadBalancing", enum |-> "LoadBalancing", tag |-> "void",
       names |-> LOAD_BALANCING_LIST_OF_NAMES, error |-> "UNKNOWN_LOAD_BALANCING"],
      [name |-> "JoinStrictness", enum |-> "JoinStrictness", tag |-> "void",
       names |-> JOIN_STRICTNESS_LIST_OF_NAMES, error |-> "UNKNOWN_JOIN_STRICTNESS"],
      [name |-> "TotalsMode", enum |-> "TotalsMode", tag |-> "void",
       names |-> TOTALS_MODE_LIST_OF_NAMES, error |-> "UNKNOWN_TOTALS_MODE"],
      [name |-> "OverflowMode", enum |-> "OverflowMode", tag |-> "void",
       names |-> OVERFLOW_MODE_LIST_OF_NAMES, error |-> "UNKNOWN_OVERFLOW_MODE"],
      [name |-> "OverflowModeGroupBy", enum |-> "OverflowMode",
       tag |-> "SettingOverflowModeGroupByTag",
       names |-> OVERFLOW_MODE_LIST_OF_NAMES_WITH_ANY, error |-> "UNKNOWN_OVERFLOW_MODE"],
      [name |-> "DistributedProductMode", enum |-> "DistributedProductMode", tag |-> "void",
       names |-> DISTRIBUTED_PRODUCT_MODE_LIST_OF_NAMES,
       error |-> "UNKNOWN_DISTRIBUTED_PRODUCT_MODE"],
      [name |-> "DateTimeInputFormat", enum |-> "FormatSettings::DateTimeInputFormat", tag |-> "void",
       names |-> DATE_TIME_INPUT_FORMAT_LIST_OF_NAMES, error |-> "BAD_ARGUMENTS"],
      [name |-> "LogsLevel", enum |-> "LogsLevel", tag |-> "void",
       names |-> LOGS_LEVEL_LIST_OF_NAMES, error |-> "BAD_ARGUMENTS"] }

EnumKinds == {inst.name : inst \in EnumInstances}

\* The instantiation that the cells of kind k are instances of.
Instance(k) == CHOOSE inst \in EnumInstances : inst.name = k

TableMembers(names) == {names[i][1] : i \in 1..Len(names)}
TableKeywords(names) == {names[i][2] : i \in 1..Len(names)}

\* The members of an enumeration: every EnumType::NAME that a table of that
\* enumeration names.
EnumMembers(enum) ==
    UNION {TableMembers(inst.names) : inst \in {i \in EnumInstances : i.enum = enum}}

\* toString(): the switch over the table's cases; a member with no case falls
\* through to the throw.
Enum_toStringResult(inst, x) ==
    IF \E i \in 1..Len(inst.names) : inst.names[i][1] = x
    THEN [ok |-> TRUE, err |-> None,
          out |-> inst.names[CHOOSE i \in 1..Len(inst.names) :
                                 /\ inst.names[i][1] = x
                                 /\ \A j \in 1..(i - 1) : inst.names[j][1] # x][2]]
    ELSE [ok |-> FALSE, err |-> inst.error, out |-> None]

\* set(EnumType x): data.store({x, true})
Enum_setValue(x) == Data(x, TRUE)

\* IMPLEMENT_SETTING_ENUM_CONCAT_NAMES_HELPER_ applied to the entries from the
\* i-th on, in table order.
RECURSIVE Enum_concatNames(_, _, _)
Enum_concatNames(names, i, all_io_names) ==
    IF i > Len(names) THEN all_io_names
    ELSE Enum_concatNames(names, i + 1,
             (IF all_io_names # "" THEN all_io_names \o ", " ELSE all_io_names)
                 \o "'" \o names[i][2] \o "'")

\* "Unknown " #ENUM_NAME " : '" + s + "', must be one of " + all_io_names
Enum_unknownNameMessage(inst, s) ==
    "Unknown " \o inst.enum \o " : '" \o s \o "', must be one of "
        \o Enum_concatNames(inst.names, 1, "")

\* A set(const String & s) that has no entry for the empty keyword.
Enum_setStringResult_emptyRejected(inst, d, s) ==
    IF s # "" /\ \E i \in 1..Len(inst.names) : inst.names[i][2] = s
    THEN Stored(Data(inst.names[CHOOSE i \in 1..Len(inst.names) :
                                    inst.names[i][2] = s][1], TRUE))
    ELSE Thrown(d, [code |-> inst.error,
                    message |-> Enum_unknownNameMessage(inst, s)])

\* set(const String & s): the first table entry whose keyword equals s, or
\* the throw after the scan.
Enum_setStringResult(inst, d, s) ==
    IF \E i \in 1..Len(inst.names) : inst.names[i][2] = s
    THEN Stored(Enum_setValue(
             inst.names[CHOOSE i \in 1..Len(inst.names) :
                            /\ inst.names[i][2] = s
                            /\ \A j \in 1..(i - 1) : inst.names[j][2] # s][1]))
    ELSE Thrown(d, [code |-> inst.error,
                    message |-> Enum_unknownNameMessage(inst, s)])

\* serialize(buf): writeBinary(toString(), buf); a throw of toString() leaves
\* the buffer unwritten.
Enum_serializeResult(inst, x) ==
    LET r == Enum_toStringResult(inst, x)
    IN  IF r.ok THEN [ok |-> TRUE, err |-> None, out |-> writeStringBinary(r.out)]
        ELSE r

\* deserialize(buf): readBinary(s, buf); set(s)
Enum_deserializeResult(inst, d, buf) ==
    Enum_setStringResult(inst, d, readStringBinary(buf))

Enum_set(c, x) ==
    /\ kind \in EnumKinds
    /\ x \in EnumMembers(Instance(kind).enum)
    /\ Call("set", c, Stored(Enum_setValue(x)), x)

Enum_setString(c, s) ==
    /\ kind \in EnumKinds
    /\ Call("set_string", c, Enum_setStringResult(Instance(kind), cells[c], s), s)

\* toString() const: the cell is left as it is, the call returns or throws.
Enum_toString(c) ==
    /\ kind \in EnumKinds
    /\ LET r == Enum_toStringResult(Instance(kind), cells[c].value)
       IN  Call("toString", c, [ok |-> r.ok, d |-> cells[c], err |-> r.err], r.out)

Enum_deserialize(c, buf) ==
    /\ kind \in EnumKinds
    /\ Call("deserialize", c, Enum_deserializeResult(Instance(kind), cells[c], buf), buf)

\* c.set(o.toString()): a throw of o.toString() ends the call before the set.
Enum_setFromString(c, o) ==
    /\ kind \in EnumKinds
    /\ LET r == Enum_toStringResult(Instance(kind), cells[o].value)
       IN  Call("set_toString", c,
                IF r.ok THEN Enum_setStringResult(Instance(kind), cells[c], r.out)
                ELSE Thrown(cells[c], r.err),
                cells[o])

\* c.deserialize(o.serialize())
Enum_deserializeFromSerialize(c, o) ==
    /\ kind \in EnumKinds
    /\ LET r == Enum_serializeResult(Instance(kind), cells[o].value)
       IN  Call("deserialize_serialize", c,
                IF r.ok THEN Enum_deserializeResult(Instance(kind), cells[c], r.out)
                ELSE Thrown(cells[c], r.err),
                cells[o])

\* The strings given to set(const String &) of an enum cell: the keywords of
\* its own table, a keyword of no table, and "THROW".
EnumStrings(inst) == TableKeywords(inst.names) \cup {"THROW", "not-a-real-keyword"}

\* The members and the strings given to a cell of kind k.
EnumInputMembers(k) == IF k \in EnumKinds THEN EnumMembers(Instance(k).enum) ELSE {}
EnumInputStrings(k) == IF k \in EnumKinds THEN EnumStrings(Instance(k)) ELSE {}

EnumNext ==
    \E c \in CellNames :
        \/ \E x \in EnumInputMembers(kind) : Enum_set(c, x)
        \/ \E s \in EnumInputStrings(kind) : Enum_setString(c, s)
        \/ \E s \in EnumInputStrings(kind) : Enum_deserialize(c, writeStringBinary(s))
        \/ \E o \in CellNames : Enum_setFromString(c, o)
        \/ \E o \in CellNames : Enum_deserializeFromSerialize(c, o)
        \/ Enum_toString(c)

(***************************************************************************)
(* Construction.                                                           *)
(***************************************************************************)
Constructed == [op |-> "construct", cell |-> "a", ok |-> TRUE, err |-> None,
                pre |-> None, arg |-> None]

NoThreads ==
    /\ pc = [t \in Threads |-> "idle"]
    /\ loc = [t \in Threads |-> None]
    /\ mutex = [c \in CellNames |-> None]

\* SettingMaxThreads(): Auto with the detected value, changed = false.
InitMaxThreads ==
    /\ kind = "MaxThreads"
    /\ res \in 1..MaxCores
    /\ cores = res
    /\ cells = [c \in CellNames |-> MTData(res, TRUE, FALSE)]
    /\ last = Constructed
    /\ NoThreads

\* SettingNumber(Type x = 0): {0, false}.
InitNumber ==
    /\ kind \in NumberKinds
    /\ res = NotDetected
    /\ cores = res
    /\ cells = [c \in CellNames |-> Data(ZeroWord, FALSE)]
    /\ last = Constructed
    /\ NoThreads

InitBool ==
    /\ kind = "Bool"
    /\ res = NotDetected
    /\ cores = res
    /\ cells = [c \in CellNames |-> Data(FALSE, FALSE)]
    /\ last = Constructed
    /\ NoThreads

\* SettingTimespan(UInt64 x = 0): a zero duration, changed = false.
InitTimespan ==
    /\ kind \in TimespanKinds
    /\ res = NotDetected
    /\ cores = res
    /\ cells = [c \in CellNames |-> Data(ZeroWord, FALSE)]
    /\ last = Constructed
    /\ NoThreads

\* SettingString(): the empty string, changed = false.
InitString ==
    /\ kind = "String"
    /\ res = NotDetected
    /\ cores = res
    /\ cells = [c \in CellNames |-> Data(<<>>, FALSE)]
    /\ last = Constructed
    /\ NoThreads

\* SettingChar(): the null character, changed = false.
InitChar ==
    /\ kind = "Char"
    /\ res = NotDetected
    /\ cores = res
    /\ cells = [c \in CellNames |-> Data(NUL, FALSE)]
    /\ last = Constructed
    /\ NoThreads

\* SettingEnum(): the first member of the table, changed = false.
InitEnum ==
    /\ kind \in EnumKinds
    /\ res = NotDetected
    /\ cores = res
    /\ cells = [c \in CellNames |-> Data(Instance(kind).names[1][1], FALSE)]
    /\ last = Constructed
    /\ NoThreads

Init ==
    \/ InitMaxThreads
    \/ InitNumber
    \/ InitBool
    \/ InitTimespan
    \/ InitString
    \/ InitChar
    \/ InitEnum

Next ==
    \/ MaxThreadsNext
    \/ NumberNext
    \/ BoolNext
    \/ TimespanNext
    \/ StringNext
    \/ CharNext
    \/ EnumNext

Spec == Init /\ [][Next]_vars

\* The hardware view changes (cores go offline or come online) after the
\* static of getAutoValue() has been initialised.
HardwareChanges ==
    /\ kind = "MaxThreads"
    /\ Quiet
    /\ cores' \in (1..MaxCores) \ {cores}
    /\ UNCHANGED <<kind, res, cells, last, pc, loc, mutex>>

NextAuto == MaxThreadsNext \/ HardwareChanges

\* Sequential calls on SettingMaxThreads cells while the hardware view varies.
SpecAuto == InitMaxThreads /\ [][NextAuto]_vars

(***************************************************************************)
(* The lock-free family under concurrency, on SettingMaxThreads (the       *)
(* three-field record; SettingNumber, SettingChar and SettingEnum keep a   *)
(* two-field record in the same std::atomic pattern). Every step is one    *)
(* atomic load or one atomic store of the whole record; a method that      *)
(* loads and then stores is two steps, and other threads run in between.   *)
(***************************************************************************)
\* A store that writes the fields one after the other, seen half way.
atomic_store_fieldwise(old, new) == [new EXCEPT !.changed = old.changed]

\* data.store(d): the cell holds d afterwards, whatever it held before.
atomic_store(old, new) == new

\* data.load(): the record the cell holds at this instant.
atomic_load(d) == d

Idle(t) == pc[t] = "idle"

\* Thread t stores the record d into cell c and returns.
Store(t, c, d) ==
    /\ cells' = [cells EXCEPT ![c] = atomic_store(cells[c], d)]
    /\ pc' = [pc EXCEPT ![t] = "idle"]
    /\ loc' = [loc EXCEPT ![t] = None]
    /\ UNCHANGED <<kind, res, cores, last, mutex>>

\* Thread t has loaded what it needs and stands at its next step.
Loaded(t, at, locals) ==
    /\ pc' = [pc EXCEPT ![t] = at]
    /\ loc' = [loc EXCEPT ![t] = locals]
    /\ UNCHANGED <<kind, res, cores, cells, last, mutex>>

\* set(UInt64 x): one store.
Atomic_set(t, c, x) ==
    /\ Idle(t)
    /\ Store(t, c, MaxThreads_setValue(x))

\* deserialize(buf): readVarUInt(x, buf); set(x)
Atomic_deserialize(t, c, buf) ==
    /\ Idle(t)
    /\ Store(t, c, MaxThreads_setValue(readVarUInt(buf)))

\* setAuto(), first half: isChanged() loads the record.
Atomic_setAuto_load(t, c) ==
    /\ Idle(t)
    /\ Loaded(t, "setAuto_store", [cell |-> c, changed |-> atomic_load(cells[c]).changed])

\* setAuto(), second half: data.store({getAutoValue(), true, <the flag loaded>})
Atomic_setAuto_store(t) ==
    /\ pc[t] = "setAuto_store"
    /\ Store(t, loc[t].cell, MaxThreads_setAutoValue(loc[t].changed))

\* set(const String & x): setAuto() for the prefix auto, set(parse(x)) otherwise.
Atomic_setString(t, c, s) ==
    /\ Idle(t)
    /\ \/ /\ startsWith(s, AutoKeyword)
          /\ Loaded(t, "setAuto_store",
                    [cell |-> c, changed |-> atomic_load(cells[c]).changed])
       \/ /\ ~startsWith(s, AutoKeyword)
          /\ parseUInt64(s) # ParseError
          /\ Store(t, c, MaxThreads_setValue(parseUInt64(s)))

\* setChanged(changed), first half: auto d = data.load()
Atomic_setChanged_load(t, c, b) ==
    /\ Idle(t)
    /\ Loaded(t, "setChanged_store", [cell |-> c, d |-> atomic_load(cells[c]), changed |-> b])

\* setChanged(changed), second half: data.store({d.value, d.is_auto, changed})
Atomic_setChanged_store(t) ==
    /\ pc[t] = "setChanged_store"
    /\ Store(t, loc[t].cell, MaxThreads_setChangedValue(loc[t].d, loc[t].changed))

\* operator=, first half: o.data.load()
Atomic_assign_load(t, c, o) ==
    /\ Idle(t)
    /\ Loaded(t, "assign_store", [cell |-> c, src |-> o, d |-> atomic_load(cells[o])])

\* operator=, second half: data.store(<the record loaded>)
Atomic_assign_store(t) ==
    /\ pc[t] = "assign_store"
    /\ Store(t, loc[t].cell, loc[t].d)

\* A read (toString, toField, serialize): auto d = data.load(), and the text
\* or number returned is made of the fields of d.
Atomic_read(t, c) ==
    /\ Idle(t)
    /\ Loaded(t, "read_return", [cell |-> c, d |-> atomic_load(cells[c])])

\* The read returns.
Atomic_read_return(t) ==
    /\ pc[t] = "read_return"
    /\ pc' = [pc EXCEPT ![t] = "idle"]
    /\ loc' = [loc EXCEPT ![t] = None]
    /\ UNCHANGED <<kind, res, cores, cells, last, mutex>>

WriteValues == 0..MaxWrite

\* The set family, setAuto and reads: no setChanged, no copy-assignment.
NextNoReset ==
    \E t \in Threads :
        \/ \E c \in CellNames :
              \/ \E x \in WriteValues : Atomic_set(t, c, x)
              \/ \E x \in WriteValues : Atomic_deserialize(t, c, writeVarUInt(x))
              \/ \E s \in {AutoKeyword, toString(MaxWrite)} : Atomic_setString(t, c, s)
              \/ Atomic_setAuto_load(t, c)
              \/ Atomic_read(t, c)
        \/ Atomic_setAuto_store(t)
        \/ Atomic_read_return(t)

\* set, setAuto, setChanged and reads by every thread on either cell, and the
\* copy-assignment a = b by every thread.
NextAtomic ==
    \E t \in Threads :
        \/ \E c \in CellNames :
              \/ \E x \in WriteValues : Atomic_set(t, c, x)
              \/ Atomic_setAuto_load(t, c)
              \/ \E b \in BOOLEAN : Atomic_setChanged_load(t, c, b)
              \/ Atomic_read(t, c)
        \/ Atomic_assign_load(t, "a", "b")
        \/ Atomic_setAuto_store(t)
        \/ Atomic_setChanged_store(t)
        \/ Atomic_assign_store(t)
        \/ Atomic_read_return(t)

InitAtomic ==
    /\ kind = "MaxThreads"
    /\ res = MaxCores
    /\ cores = res
    /\ cells = [c \in CellNames |-> MTData(res, TRUE, FALSE)]
    /\ last = Constructed
    /\ pc = [t \in Threads |-> "idle"]
    /\ loc = [t \in Threads |-> None]
    /\ mutex = [c \in CellNames |-> None]

SpecNoReset == InitAtomic /\ [][NextNoReset]_vars

SpecAtomic == InitAtomic /\ [][NextAtomic]_vars

(***************************************************************************)
(* The lock-based family under concurrency: SettingString, and             *)
(* SettingTimespan<io_unit> whose methods have the same statements. A cell *)
(* is the two fields value and changed beside a std::shared_mutex; every   *)
(* step is one lock acquisition or one field access, and a lock guard is   *)
(* released by the step that leaves its scope.                             *)
(***************************************************************************)
LockKinds == {"String"} \cup TimespanKinds

\* std::shared_mutex: the threads that hold it shared, the thread that holds
\* it exclusively.
Unlocked == [readers |-> {}, writers |-> {}]

\* std::shared_lock lock(m): waits while a thread holds m exclusively.
CanLockShared(m) == m.writers = {}

\* std::unique_lock lock(m): waits while any thread holds m.
CanLockUnique(m) == m.writers = {} /\ m.readers = {}

LockShared(m, t) == [m EXCEPT !.readers = @ \cup {t}]
UnlockShared(m, t) == [m EXCEPT !.readers = @ \ {t}]
LockUnique(m, t) == [m EXCEPT !.writers = @ \cup {t}]
UnlockUnique(m, t) == [m EXCEPT !.writers = @ \ {t}]

\* Thread t moves to position at with the locals given.
Goto(t, at, locals) ==
    /\ pc' = [pc EXCEPT ![t] = at]
    /\ loc' = [loc EXCEPT ![t] = locals]

\* toString() / toField() is called (SettingTimespan: through getValue()).
Lock_read(t, c) ==
    /\ Idle(t)
    /\ Goto(t, "read_lock", [cell |-> c])
    /\ UNCHANGED <<kind, res, cores, cells, last, mutex>>

\* toString() / toField(): std::shared_lock lock(mutex)
Lock_read_lock(t) ==
    /\ pc[t] = "read_lock"
    /\ CanLockShared(mutex[loc[t].cell])
    /\ mutex' = [mutex EXCEPT ![loc[t].cell] = LockShared(@, t)]
    /\ Goto(t, "read_value", loc[t])
    /\ UNCHANGED <<kind, res, cores, cells, last>>

\* toString() / toField(): return value, and the guard unlocks.
Lock_read_value(t) ==
    /\ pc[t] = "read_value"
    /\ mutex' = [mutex EXCEPT ![loc[t].cell] = UnlockShared(@, t)]
    /\ Goto(t, "idle", None)
    /\ UNCHANGED <<kind, res, cores, cells, last>>

\* SettingString::serialize() is entered: no lock is taken.
Lock_serialize(t, c) ==
    /\ Idle(t)
    /\ kind = "String"
    /\ Goto(t, "serialize_read", [cell |-> c])
    /\ UNCHANGED <<kind, res, cores, cells, last, mutex>>

\* SettingString::serialize(): writeBinary(value, buf)
Lock_serialize_read(t) ==
    /\ pc[t] = "serialize_read"
    /\ Goto(t, "idle", None)
    /\ UNCHANGED <<kind, res, cores, cells, last, mutex>>

\* set(x) is called.
Lock_set(t, c, x) ==
    /\ Idle(t)
    /\ Goto(t, "set_lock", [cell |-> c, x |-> x])
    /\ UNCHANGED <<kind, res, cores, cells, last, mutex>>

\* set(x): std::unique_lock lock(mutex)
Lock_set_lock(t) ==
    /\ pc[t] = "set_lock"
    /\ CanLockUnique(mutex[loc[t].cell])
    /\ mutex' = [mutex EXCEPT ![loc[t].cell] = LockUnique(@, t)]
    /\ Goto(t, "set_value", loc[t])
    /\ UNCHANGED <<kind, res, cores, cells, last>>

\* set(x): value = x
Lock_set_value(t) ==
    /\ pc[t] = "set_value"
    /\ cells' = [cells EXCEPT ![loc[t].cell].value = loc[t].x]
    /\ Goto(t, "set_changed", [cell |-> loc[t].cell])
    /\ UNCHANGED <<kind, res, cores, last, mutex>>

\* set(x): changed = true, and the guard unlocks.
Lock_set_changed(t) ==
    /\ pc[t] = "set_changed"
    /\ cells' = [cells EXCEPT ![loc[t].cell].changed = TRUE]
    /\ mutex' = [mutex EXCEPT ![loc[t].cell] = UnlockUnique(@, t)]
    /\ Goto(t, "idle", None)
    /\ UNCHANGED <<kind, res, cores, last>>

\* setChanged(c) is called.
Lock_setChanged(t, c, b) ==
    /\ Idle(t)
    /\ Goto(t, "setChanged_lock", [cell |-> c, changed |-> b])
    /\ UNCHANGED <<kind, res, cores, cells, last, mutex>>

\* setChanged(c): std::unique_lock lock(mutex)
Lock_setChanged_lock(t) ==
    /\ pc[t] = "setChanged_lock"
    /\ CanLockUnique(mutex[loc[t].cell])
    /\ mutex' = [mutex EXCEPT ![loc[t].cell] = LockUnique(@, t)]
    /\ Goto(t, "setChanged_write", loc[t])
    /\ UNCHANGED <<kind, res, cores, cells, last>>

\* setChanged(c): changed = c, and the guard unlocks.
Lock_setChanged_write(t) ==
    /\ pc[t] = "setChanged_write"
    /\ cells' = [cells EXCEPT ![loc[t].cell].changed = loc[t].changed]
    /\ mutex' = [mutex EXCEPT ![loc[t].cell] = UnlockUnique(@, t)]
    /\ Goto(t, "idle", None)
    /\ UNCHANGED <<kind, res, cores, last>>

\* c = o (operator=) is called.
Lock_assign(t, c, o) ==
    /\ Idle(t)
    /\ Goto(t, "assign_lock", [cell |-> c, src |-> o])
    /\ UNCHANGED <<kind, res, cores, cells, last, mutex>>

\* An operator= that also takes the destination's mutex, exclusively, while
\* it holds the source's.
Lock_assign_lock_both(t) ==
    /\ pc[t] = "assign_lock"
    /\ loc[t].cell # loc[t].src
    /\ CanLockShared(mutex[loc[t].src])
    /\ CanLockUnique(mutex[loc[t].cell])
    /\ mutex' = [mutex EXCEPT ![loc[t].src] = LockShared(@, t),
                              ![loc[t].cell] = LockUnique(@, t)]
    /\ Goto(t, "assign_value", loc[t])
    /\ UNCHANGED <<kind, res, cores, cells, last>>

\* c = o: std::shared_lock lock_o(o.mutex)
Lock_assign_lock(t) ==
    /\ pc[t] = "assign_lock"
    /\ CanLockShared(mutex[loc[t].src])
    /\ mutex' = [mutex EXCEPT ![loc[t].src] = LockShared(@, t)]
    /\ Goto(t, "assign_value", loc[t])
    /\ UNCHANGED <<kind, res, cores, cells, last>>

\* c = o: value = o.value
Lock_assign_value(t) ==
    /\ pc[t] = "assign_value"
    /\ cells' = [cells EXCEPT ![loc[t].cell].value = cells[loc[t].src].value]
    /\ Goto(t, "assign_changed", loc[t])
    /\ UNCHANGED <<kind, res, cores, last, mutex>>

\* c = o: changed = o.changed; return *this, and the guard unlocks o.mutex.
Lock_assign_changed(t) ==
    /\ pc[t] = "assign_changed"
    /\ cells' = [cells EXCEPT ![loc[t].cell].changed = cells[loc[t].src].changed]
    /\ mutex' = [mutex EXCEPT ![loc[t].src] = UnlockShared(@, t)]
    /\ Goto(t, "idle", None)
    /\ UNCHANGED <<kind, res, cores, last>>

\* The values written to a lock-based cell.
LockValues(k) ==
    IF k = "String" THEN {<<>>, <<"x">>}
    ELSE {ZeroWord, UInt64Of(microseconds_per_io_unit(k))}

\* The steps of thread t inside a call it has made.
LockStep(t) ==
    \/ Lock_read_lock(t)
    \/ Lock_read_value(t)
    \/ Lock_serialize_read(t)
    \/ Lock_set_lock(t)
    \/ Lock_set_value(t)
    \/ Lock_set_changed(t)
    \/ Lock_setChanged_lock(t)
    \/ Lock_setChanged_write(t)
    \/ Lock_assign_lock(t)
    \/ Lock_assign_value(t)
    \/ Lock_assign_changed(t)

\* A call made by thread t.
LockCall(t) ==
    \E c \in CellNames :
        \/ Lock_read(t, c)
        \/ Lock_serialize(t, c)
        \/ \E x \in LockValues(kind) : Lock_set(t, c, x)
        \/ \E b \in BOOLEAN : Lock_setChanged(t, c, b)
        \/ \E o \in CellNames : Lock_assign(t, c, o)

NextLock == \E t \in Threads : LockCall(t) \/ LockStep(t)

InitLock ==
    /\ kind \in LockKinds
    /\ res = NotDetected
    /\ cores = res
    /\ cells = [c \in CellNames |->
                   Data(IF kind = "String" THEN <<>> ELSE ZeroWord, FALSE)]
    /\ last = Constructed
    /\ pc = [t \in Threads |-> "idle"]
    /\ loc = [t \in Threads |-> None]
    /\ mutex = [c \in CellNames |-> Unlocked]

SpecLock == InitLock /\ [][NextLock]_vars

\* The scheduler runs every thread that can take a step of the call it is in;
\* a thread waiting for a mutex can take its step while the mutex is free for
\* it. No thread is obliged to make a call.
SpecLockFair == SpecLock /\ \A t \in Threads : WF_vars(LockStep(t))

(***************************************************************************)
(* Properties of the sequential calls.                                     *)
(***************************************************************************)
SetFamily ==
    {"set", "set_field", "set_string", "deserialize",
     "set_toField", "deserialize_serialize", "set_toString"}

\* C1: for every setting kind the changed flag is false on construction, and
\* after any successful call of the set family (native value, text,
\* interchange value, deserialize) the changed flag of the cell is true.
C1_ChangedTrueAfterEverySet ==
    /\ last.op = "construct" => \A c \in CellNames : ~cells[c].changed
    /\ (last.op \in SetFamily /\ last.ok) => cells[last.cell].changed

SameState(d, e) == d.value = e.value /\ d.is_auto = e.is_auto

IsAuto(d) == d.is_auto /\ d.value = res

IsExplicit(d, n) == ~d.is_auto /\ d.value = n /\ n # 0

\* C6: the auto-sizing cell is a two-state machine. In every reachable state
\* is_auto implies value = the cached auto value and ~is_auto implies value
\* is non-zero; set(0) and setAuto end in Auto, set(n > 0) and deserialize of
\* n > 0 end in Explicit n, setChanged keeps {value, is_auto} and
\* copy-assignment takes those of the source.
C6_AutoSizingStateMachine ==
    kind = "MaxThreads" =>
        /\ \A c \in CellNames :
              /\ cells[c].is_auto => cells[c].value = res
              /\ ~cells[c].is_auto => cells[c].value # 0
        /\ last.op = "set" =>
              IF last.arg = 0 THEN IsAuto(cells[last.cell])
              ELSE IsExplicit(cells[last.cell], last.arg)
        /\ last.op = "deserialize" =>
              IF last.arg = <<0>> THEN IsAuto(cells[last.cell])
              ELSE \E n \in UIntValues :
                      /\ writeVarUInt(n) = last.arg
                      /\ IsExplicit(cells[last.cell], n)
        /\ last.op = "setAuto" => IsAuto(cells[last.cell])
        /\ last.op = "setChanged" =>
              /\ SameState(cells[last.cell], last.pre)
              /\ cells[last.cell].changed = last.arg
        /\ last.op = "assign" => cells[last.cell] = last.arg

\* C6 witness: setAuto() has moved a cell from Explicit to Auto.
C6_Witness ==
    /\ kind = "MaxThreads"
    /\ last.op = "setAuto"
    /\ ~last.pre.is_auto
    /\ cells[last.cell].is_auto

\* C7: toField() and serialize() emit 0 exactly in Auto and the explicit value
\* otherwise, and set(toField()) and deserialize(serialize()) into any cell
\* reproduce the {value, is_auto} of the cell that was read.
C7_InterchangeAndWireRoundTrip ==
    kind = "MaxThreads" =>
        /\ \A c \in CellNames :
              LET d == cells[c]
              IN  /\ MaxThreads_toField(d).type = "UInt64"
                  /\ MaxThreads_toField(d).val = 0 <=> d.is_auto
                  /\ ~d.is_auto => MaxThreads_toField(d).val = d.value
                  /\ readVarUInt(MaxThreads_serialize(d)) = 0 <=> d.is_auto
                  /\ ~d.is_auto => readVarUInt(MaxThreads_serialize(d)) = d.value
        /\ last.op \in {"set_toField", "deserialize_serialize"} =>
              /\ last.ok
              /\ SameState(cells[last.cell], last.arg)

\* C7 witness: the 0 read from an Auto cell has put an Explicit cell in Auto.
C7_Witness ==
    /\ kind = "MaxThreads"
    /\ last.op = "set_toField"
    /\ last.arg.is_auto
    /\ ~last.pre.is_auto
    /\ cells[last.cell].is_auto

\* The text between the parentheses of "auto(<n>)".
AutoHint(s) == SubSeq(s, Len(AutoKeyword) + 2, Len(s) - 1)

\* C8: toString() is "auto(<value>)" in Auto and the decimal number in
\* Explicit; set(string) puts the cell in Auto for any string that starts with
\* auto, whatever follows, and handles any other string as set(n) of the
\* number n it parses to; so set(toString()) reproduces {value, is_auto}.
C8_TextRoundTrip ==
    kind = "MaxThreads" =>
        /\ \A c \in CellNames :
              LET d == cells[c]
                  s == MaxThreads_toString(d)
              IN  IF d.is_auto
                  THEN /\ startsWith(s, AutoKeyword \o <<"(">>)
                       /\ s[Len(s)] = ")"
                       /\ parseUInt64(AutoHint(s)) = d.value
                  ELSE parseUInt64(s) = d.value
        /\ last.op = "set_string" =>
              IF startsWith(last.arg, AutoKeyword)
              THEN last.ok /\ IsAuto(cells[last.cell])
              ELSE LET n == parseUInt64(last.arg)
                   IN  n # ParseError =>
                          /\ last.ok
                          /\ IF n = 0 THEN IsAuto(cells[last.cell])
                             ELSE IsExplicit(cells[last.cell], n)
        /\ last.op = "set_toString" =>
              /\ last.ok
              /\ SameState(cells[last.cell], last.arg)

\* C8 witness: the text "auto(<n>)" of an Auto cell has put an Explicit cell
\* in Auto.
C8_Witness ==
    /\ kind = "MaxThreads"
    /\ last.op = "set_toString"
    /\ last.arg.is_auto
    /\ ~last.pre.is_auto
    /\ cells[last.cell].is_auto

LowerCase(x) == [i \in 1..Len(x) |-> toLower(x[i])]

C10_EveryStoredMemberHasOneKeyword ==
    kind \in EnumKinds =>
        LET names == Instance(kind).names
        IN  /\ \A c \in CellNames :
                  Cardinality({i \in 1..Len(names) : names[i][1] = cells[c].value}) = 1
            /\ last.op = "toString" => last.ok
            /\ \A i, j \in 1..Len(names) : names[i][2] = names[j][2] => i = j

\* The keywords of a table up to the n-th, each between single quotes, in
\* table order, separated by a comma and a space.
RECURSIVE QuotedKeywords(_, _)
QuotedKeywords(names, n) ==
    IF n = 0 THEN ""
    ELSE IF n = 1 THEN "'" \o names[1][2] \o "'"
    ELSE QuotedKeywords(names, n - 1) \o ", '" \o names[n][2] \o "'"

\* The member that a table lists for keyword s.
MemberOf(names, s) == names[CHOOSE i \in 1..Len(names) : names[i][2] = s][1]

\* C11: for every member listed in the table, set(toString()) and
\* deserialize(serialize()) store that member, the member of the empty
\* keyword included; set(string) and deserialize of a string that is not,
\* case-sensitively, a keyword of the table throw the instantiation's error
\* code with a message that lists every keyword of the table, quoted, in
\* table order, separated by commas.
C11_EnumRoundTrip ==
    kind \in EnumKinds =>
        LET inst == Instance(kind)
            names == inst.names
        IN  /\ (/\ last.op \in {"set_toString", "deserialize_serialize"}
                /\ last.arg.value \in TableMembers(names)) =>
                  /\ last.ok
                  /\ cells[last.cell] = Data(last.arg.value, TRUE)
            /\ last.op \in {"set_string", "deserialize"} =>
                  LET s == IF last.op = "set_string" THEN last.arg
                           ELSE readStringBinary(last.arg)
                  IN  IF s \in TableKeywords(names)
                      THEN /\ last.ok
                           /\ cells[last.cell] = Data(MemberOf(names, s), TRUE)
                      ELSE /\ ~last.ok
                           /\ cells[last.cell] = last.pre
                           /\ last.err.code = inst.error
                           /\ last.err.message =
                                  "Unknown " \o inst.enum \o " : '" \o s
                                      \o "', must be one of "
                                      \o QuotedKeywords(names, Len(names))

\* C11 witness: the empty keyword written by serialize() of a cell holding
\* JoinStrictness::Unspecified has been read back into a cell that held
\* another member.
C11_Witness ==
    /\ kind = "JoinStrictness"
    /\ last.op = "deserialize_serialize"
    /\ last.arg.value = "Unspecified"
    /\ last.pre.value # "Unspecified"
    /\ last.ok
    /\ cells[last.cell].value = "Unspecified"

\* The text that the claim gives for a stored character: empty for the null
\* character, the character itself otherwise.
ShortText(x) == IF x = NUL THEN <<>> ELSE <<x>>

\* C12: toString() and toField() of a character cell return the one-character
\* string of the stored character, and the empty string when it is the null
\* character; serialize() writes a string of length 0 or 1, of length 0
\* exactly for the null character.
C12_CharTextIsEmptyForNul ==
    kind = "Char" =>
        /\ last.op = "toString" => last.arg = ShortText(last.pre.value)
        /\ last.op = "toField" => last.arg = FieldString(ShortText(last.pre.value))
        /\ last.op = "serialize" =>
              /\ readVarUInt(last.arg) \in {0, 1}
              /\ readVarUInt(last.arg) = 0 <=> last.pre.value = NUL
              /\ readStringBinary(last.arg) = ShortText(last.pre.value)

\* The string carried by the argument of a call of the set family on a
\* character cell.
CarriedString ==
    IF last.op = "set_string" THEN last.arg
    ELSE IF last.op = "set_field" THEN last.arg.val
    ELSE readStringBinary(last.arg)

\* C13: set(string) on a character cell stores the character of a string of
\* length 1 and the null character for the empty string, with changed = true,
\* and throws SIZE_OF_FIXED_STRING_DOESNT_MATCH, storing nothing, for a longer
\* string; set(Field) and deserialize do the same with the string they carry.
C13_CharSetString ==
    (/\ kind = "Char"
     /\ last.op \in {"set_string", "set_field", "deserialize"}
     /\ last.op = "set_field" => last.arg.type = "String") =>
        LET s == CarriedString
        IN  /\ Len(s) = 1 => last.ok /\ cells[last.cell] = Data(s[1], TRUE)
            /\ Len(s) = 0 => last.ok /\ cells[last.cell] = Data(NUL, TRUE)
            /\ Len(s) > 1 =>
                  /\ ~last.ok
                  /\ last.err = "SIZE_OF_FIXED_STRING_DOESNT_MATCH"
                  /\ cells[last.cell] = last.pre

\* C13 witness: deserialize of a two-character string has thrown on a cell
\* that held a character set before, and the cell still holds it.
C13_Witness ==
    /\ kind = "Char"
    /\ last.op = "deserialize"
    /\ Len(readStringBinary(last.arg)) > 1
    /\ ~last.ok
    /\ last.pre.changed
    /\ last.pre.value # NUL
    /\ cells[last.cell] = last.pre

\* C15: the auto value is computed once: getAutoValue() returns the same
\* number in every state, whatever the hardware reports later, and every cell
\* in Auto, however it got there, holds that number, so all Auto cells agree.
C15_AutoValueComputedOnce ==
    /\ [](\A c \in CellNames : cells[c].is_auto => cells[c].value = getAutoValue)
    /\ [](\A c, d \in CellNames :
             cells[c].is_auto /\ cells[d].is_auto => cells[c].value = cells[d].value)
    /\ [][getAutoValue' = getAutoValue]_vars

\* C15 witness: the hardware reports another number than the one detected, a
\* cell that was Explicit has been put in Auto by set(0), and the other cell is
\* in Auto too.
C15_Witness ==
    /\ kind = "MaxThreads"
    /\ getNumberOfPhysicalCPUCores # res
    /\ last.op = "set"
    /\ last.arg = 0
    /\ ~last.pre.is_auto
    /\ \A c \in CellNames : cells[c].is_auto

(***************************************************************************)
(* Failing calls of the set family, with readers running beside them.      *)
(* A call that succeeds is taken here as one step made while no thread is  *)
(* inside an operation; a call that fails is two steps of its thread, the  *)
(* entry that evaluates the input and the throw, and other threads read    *)
(* the cells in between.                                                   *)
(***************************************************************************)
\* The outcome of the call op with input x on a cell of kind k holding d.
SetResult(k, op, d, x) ==
    CASE k = "MaxThreads" /\ op = "set_string" -> MaxThreads_setStringResult(d, x)
      [] k = "MaxThreads" /\ op = "set_field" -> MaxThreads_setFieldResult(d, x)
      [] k \in NumberKinds /\ op = "set_string" -> Number_setStringResult(k, d, x)
      [] k = "Bool" /\ op = "set_string" -> Bool_setStringResult(d, x)
      [] k \in TimespanKinds /\ op = "set_string" -> Timespan_setStringResult(k, d, x)
      [] k = "String" /\ op = "set_field" -> String_setFieldResult(d, x)
      [] k = "Char" /\ op = "set_string" -> Char_setStringResult(d, x)
      [] k = "Char" /\ op = "set_field" -> Char_setFieldResult(d, x)
      [] k = "Char" /\ op = "deserialize" -> Char_deserializeResult(d, x)
      [] k \in EnumKinds /\ op = "set_string" -> Enum_setStringResult(Instance(k), d, x)
      [] k \in EnumKinds /\ op = "deserialize" -> Enum_deserializeResult(Instance(k), d, x)

Input(op, x) == [op |-> op, arg |-> x]

\* The calls made on a cell of kind k: for each way the kind's set family can
\* fail an input that fails so, and an input that is accepted.
FailInputs(k) ==
    CASE k = "MaxThreads" ->
           <<Input("set_string", toString(1)), Input("set_string", <<"x">>),
             Input("set_field", FieldFloat64), Input("set_field", FieldString(<<"x">>))>>
      [] k \in NumberKinds ->
           <<Input("set_string", <<"1">>), Input("set_string", <<"x">>),
             Input("set_string", <<>>)>>
      [] k = "Bool" ->
           <<Input("set_string", <<"1">>), Input("set_string", <<"2">>),
             Input("set_string", <<"y", "e", "s">>)>>
      [] k \in TimespanKinds ->
           <<Input("set_string", <<"1">>), Input("set_string", <<"x">>)>>
      [] k = "String" ->
           <<Input("set_field", FieldString(<<"x">>)), Input("set_field", FieldUInt64(1))>>
      [] k = "Char" ->
           <<Input("set_string", <<"x">>), Input("set_string", <<"x", "y">>),
             Input("set_field", FieldUInt64(1)),
             Input("deserialize", writeStringBinary(<<"x", "y">>))>>
      [] k \in EnumKinds ->
           <<Input("set_string", Instance(k).names[Len(Instance(k).names)][2]),
             Input("set_string", "not-a-real-keyword"),
             Input("deserialize", writeStringBinary("not-a-real-keyword"))>>

\* A call that succeeds, as one step.
Fail_set(c, i) ==
    LET call == FailInputs(kind)[i]
        r == SetResult(kind, call.op, cells[c], call.arg)
    IN  /\ r.ok
        /\ Call(call.op, c, r, call.arg)

\* Thread t enters a call whose input is refused: the input is evaluated and
\* the error is about to be raised.
Fail_call(t, c, i) ==
    LET call == FailInputs(kind)[i]
        r == SetResult(kind, call.op, cells[c], call.arg)
    IN  /\ pc[t] = "idle"
        /\ ~r.ok
        /\ pc' = [pc EXCEPT ![t] = "set_throw"]
        /\ loc' = [loc EXCEPT ![t] = [cell |-> c, op |-> call.op, arg |-> call.arg,
                                       pre |-> cells[c], err |-> r.err]]
        /\ UNCHANGED <<kind, res, cores, cells, last, mutex>>

\* A throw that comes after the cell was marked as changed.
Fail_throw_marked(t) ==
    /\ pc[t] = "set_throw"
    /\ cells' = [cells EXCEPT ![loc[t].cell].changed = TRUE]
    /\ last' = [op |-> loc[t].op, cell |-> loc[t].cell, ok |-> FALSE,
                err |-> loc[t].err, pre |-> loc[t].pre, arg |-> loc[t].arg]
    /\ pc' = [pc EXCEPT ![t] = "idle"]
    /\ loc' = [loc EXCEPT ![t] = None]
    /\ UNCHANGED <<kind, res, cores, mutex>>

\* throw Exception(...): the call ends with nothing stored.
Fail_throw(t) ==
    /\ pc[t] = "set_throw"
    /\ last' = [op |-> loc[t].op, cell |-> loc[t].cell, ok |-> FALSE,
                err |-> loc[t].err, pre |-> loc[t].pre, arg |-> loc[t].arg]
    /\ pc' = [pc EXCEPT ![t] = "idle"]
    /\ loc' = [loc EXCEPT ![t] = None]
    /\ UNCHANGED <<kind, res, cores, cells, mutex>>

\* Thread t reads cell c (getValue, toString, toField) and returns.
Fail_read(t, c) ==
    /\ pc[t] = "idle"
    /\ pc' = [pc EXCEPT ![t] = "read_return"]
    /\ loc' = [loc EXCEPT ![t] = [cell |-> c, d |-> cells[c]]]
    /\ UNCHANGED <<kind, res, cores, cells, last, mutex>>

Fail_read_return(t) ==
    /\ pc[t] = "read_return"
    /\ pc' = [pc EXCEPT ![t] = "idle"]
    /\ loc' = [loc EXCEPT ![t] = None]
    /\ UNCHANGED <<kind, res, cores, cells, last, mutex>>

NextFail ==
    \/ \E c \in CellNames : \E i \in 1..Len(FailInputs(kind)) : Fail_set(c, i)
    \/ \E t \in Threads :
          \/ \E c \in CellNames : \E i \in 1..Len(FailInputs(kind)) : Fail_call(t, c, i)
          \/ Fail_throw(t)
          \/ \E c \in CellNames : Fail_read(t, c)
          \/ Fail_read_return(t)

SpecFail == Init /\ [][NextFail]_vars

\* C18: for every kind, a set(string), set(Field) or deserialize that fails
\* raises its error before any store: the cell is exactly what it was before
\* the call, during the call and after it, and a reader running beside the
\* call sees that state of the cell and no other.
C18_FailedSetChangesNothing ==
    /\ (last.op \in SetFamily /\ ~last.ok) => cells[last.cell] = last.pre
    /\ \A t \in Threads :
          /\ pc[t] = "set_throw" => cells[loc[t].cell] = loc[t].pre
          /\ pc[t] = "read_return" => loc[t].d = cells[loc[t].cell]

\* C18 witness: a cell that an earlier set marked as changed, a thread inside
\* a failing call on it and another thread that has just read it.
C18_Witness ==
    \E t, u \in Threads :
        /\ pc[t] = "set_throw"
        /\ pc[u] = "read_return"
        /\ loc[u].cell = loc[t].cell
        /\ loc[t].pre.changed
        /\ loc[u].d = loc[t].pre

\* A well-formed variable-length integer: the high bit is set on every byte
\* but the last.
IsVarInt(buf) ==
    /\ buf # <<>>
    /\ \A i \in 1..Len(buf) : buf[i] >= 128 <=> i < Len(buf)

\* C17: for the unsigned, the signed and the boolean scalar, a cell holding
\* v that is serialized and deserialized into another cell gives a cell
\* holding v with changed = true, and set(toString()) of a cell holding v
\* stores v; unsigned and boolean values travel as a variable-length
\* unsigned integer, signed values as a variable-length signed integer.
C17_ScalarRoundTrip ==
    kind \in NumberKinds \cup {"Bool"} =>
        /\ last.op \in {"deserialize_serialize", "set_toString"} =>
              /\ last.ok
              /\ cells[last.cell] = Data(last.arg.value, TRUE)
        /\ last.op = "serialize" =>
              /\ IsVarInt(last.arg)
              /\ kind = "UInt64" => readVarUIntWord(last.arg) = last.pre.value
              /\ kind = "Bool" =>
                    readVarUIntWord(last.arg) = UInt64Of(IF last.pre.value THEN 1 ELSE 0)
              /\ kind = "Int64" =>
                    LET u == readVarUIntWord(last.arg)
                        v == last.pre.value
                    IN  IF IsNegative(v)
                        THEN NegWord(v) = MulWord(DivWord(u, 2), 1, 1) /\ ModWord(u, 2) = 1
                        ELSE v = DivWord(u, 2) /\ ModWord(u, 2) = 0

\* C17 witness: a negative signed value has been carried over the wire from
\* one cell into another cell that held something else.
C17_Witness ==
    /\ kind = "Int64"
    /\ last.op = "deserialize_serialize"
    /\ IsNegative(last.arg.value)
    /\ last.pre.value # last.arg.value
    /\ cells[last.cell].value = last.arg.value

\* The value that a duration cell holding v microseconds emits.
Emitted(v) == DivWord(v, microseconds_per_io_unit(kind))

\* C16: for both resolutions set(n) stores n * factor microseconds; toString,
\* toField and serialize emit the stored microseconds divided by the factor,
\* truncating; so after set(n), set(string) or deserialize of any unsigned n
\* the emitted value is n, and after set(duration d) the cell that
\* deserialize(serialize()) fills holds d truncated to whole units.
C16_TimespanConversions ==
    kind \in TimespanKinds =>
        LET f == microseconds_per_io_unit(kind)
            v == cells[last.cell].value
        IN  /\ last.op = "set" =>
                  /\ ModWord(v, f) = 0
                  /\ Emitted(v) = last.arg
            /\ (last.op = "set_string" /\ last.ok) =>
                  Emitted(v) = UInt64Of(parseUInt64(last.arg))
            /\ last.op = "deserialize" => Emitted(v) = readVarUIntWord(last.arg)
            /\ last.op = "toField" => last.arg = Emitted(last.pre.value)
            /\ last.op = "toString" => last.arg = toStringWord(Emitted(last.pre.value))
            /\ last.op = "serialize" => readVarUIntWord(last.arg) = Emitted(last.pre.value)
            /\ last.op = "deserialize_serialize" =>
                  /\ ModWord(v, f) = 0
                  /\ Emitted(v) = Emitted(last.arg.value)

(***************************************************************************)
(* Properties of the lock-free family under concurrency.                   *)
(***************************************************************************)
\* The positions at which a thread holds a record it has loaded.
ObservingAt == {"setChanged_store", "assign_store", "read_return"}

\* C2: with no setChanged(false) and no copy-assignment, once changed is true
\* on a cell no later step makes it false again.
C2_ChangedStaysTrue ==
    [][\A c \in CellNames : cells[c].changed => cells'[c].changed]_vars

\* C3: no record is ever torn: the record a cell holds, the record a read
\* observes and the record a copy-assignment or setChanged has loaded are each
\* whole (the initial record, or the three values that one store put
\* together), and the step that ends a copy-assignment leaves in the
\* destination exactly the record it loaded from the source.
C3_NoTornRecord ==
    /\ [](/\ \A c \in CellNames : Whole(cells[c])
          /\ \A t \in Threads : pc[t] \in ObservingAt => Whole(loc[t].d))
    /\ [][\A t \in Threads :
             (pc[t] = "assign_store" /\ pc'[t] = "idle") =>
                 cells'[loc[t].cell] = loc[t].d]_vars

\* C3 witness: a read has returned a record that a store has since replaced,
\* while a copy-assignment stands before its store with a record of the source
\* that differs from the destination's in value and in changed.
C3_Witness ==
    \E t, u \in Threads :
        /\ pc[t] = "read_return"
        /\ loc[t].d # cells[loc[t].cell]
        /\ pc[u] = "assign_store"
        /\ loc[u].d.value # cells[loc[u].cell].value
        /\ loc[u].d.changed # cells[loc[u].cell].changed

\* C19: in every interleaving setChanged changes only the flag changed: the
\* step that ends a setChanged leaves in the cell the value and is_auto that
\* the cell held just before it, so a set(n) or setAuto that completed while
\* the setChanged was running is not lost.
C19_SetChangedKeepsPayload ==
    [][\A t \in Threads :
          (pc[t] = "setChanged_store" /\ pc'[t] = "idle") =>
              SameState(cells'[loc[t].cell], cells[loc[t].cell])]_vars

(***************************************************************************)
(* Properties of the lock-based family under concurrency.                  *)
(***************************************************************************)
\* Thread t stands before a read of the field value of cell c, made by one
\* of toString, toField, serialize or a copy out of c.
ReadsValue(t, c) ==
    \/ pc[t] \in {"read_value", "serialize_read"} /\ loc[t].cell = c
    \/ pc[t] = "assign_value" /\ loc[t].src = c

\* Thread t stands before the write of the field value of cell c made by set.
SetWritesValue(t, c) == pc[t] = "set_value" /\ loc[t].cell = c

\* C4: on a text cell no thread reads the stored string (get, toString,
\* toField, serialize, copy out) while another thread's set writes it.
C4_NoReadDuringSet ==
    kind = "String" =>
        \A c \in CellNames : \A t, u \in Threads :
            ~(t # u /\ ReadsValue(t, c) /\ SetWritesValue(u, c))

\* Thread t is inside the copy-assignment into cell c from another cell,
\* before the write of one of c's fields.
AssignsInto(t, c) ==
    /\ pc[t] \in {"assign_value", "assign_changed"}
    /\ loc[t].cell = c
    /\ loc[t].src # c

\* Thread t is inside the critical section of a read of cell c or of a set or
\* setChanged on cell c.
InCriticalSection(t, c) ==
    \/ /\ pc[t] \in {"read_value", "set_value", "set_changed", "setChanged_write"}
       /\ loc[t].cell = c
    \/ pc[t] \in {"assign_value", "assign_changed"} /\ loc[t].src = c

\* C5: while a copy-assignment writes the value and changed fields of a
\* lock-based cell, no other thread is inside the critical section of a read
\* of that cell, of a copy out of it or of a set on it.
C5_AssignExcludesReadersAndWriters ==
    \A c \in CellNames : \A t, u \in Threads :
        ~(t # u /\ AssignsInto(t, c) /\ InCriticalSection(u, c))

\* The mutexes that thread t holds, shared or exclusively.
HeldBy(t) == {c \in CellNames : t \in mutex[c].readers \cup mutex[c].writers}

\* Thread t is inside a call and its next step can be taken.
CanStep(t) ==
    \/ pc[t] \in {"read_value", "serialize_read", "set_value", "set_changed",
                  "setChanged_write", "assign_value", "assign_changed"}
    \/ pc[t] = "read_lock" /\ CanLockShared(mutex[loc[t].cell])
    \/ pc[t] \in {"set_lock", "setChanged_lock"} /\ CanLockUnique(mutex[loc[t].cell])
    \/ pc[t] = "assign_lock" /\ CanLockShared(mutex[loc[t].src])

\* No thread holds two mutexes, and whenever a thread is inside a call some
\* thread inside a call can take its next step.
NoLockCycle ==
    /\ \A t \in Threads : Cardinality(HeldBy(t)) <= 1
    /\ (\E t \in Threads : pc[t] # "idle") => \E t \in Threads : CanStep(t)

\* C14 as stated: every call on a lock-based cell that a thread has made
\* eventually returns.
C14_EveryStartedCallCompletes ==
    \A t \in Threads : (pc[t] # "idle") ~> (pc[t] = "idle")

\* The steps that thread t, past its lock statement, has left before it
\* returns.
StepsLeft(t) ==
    IF pc[t] \in {"set_value", "assign_value"} THEN 2
    ELSE IF pc[t] \in {"read_value", "serialize_read", "set_changed",
                       "setChanged_write", "assign_changed"} THEN 1
    ELSE 0

\* A thread holds a mutex only past its lock statement, and there its next
\* step can always be taken.
HoldersRun ==
    \A t \in Threads : HeldBy(t) # {} => StepsLeft(t) > 0 /\ CanStep(t)

\* C14 amended: no thread ever holds two mutexes, no state is a deadlock
\* (a = b with b = a and a = a included), and a thread that holds a mutex is
\* never blocked and returns, releasing it, within two steps of its own; so
\* under fair scheduling every call that has taken its lock completes. A call
\* still at its lock statement is not promised the mutex while other threads
\* take it again and again.
C14_NoDeadlockAndLocksReleased ==
    /\ [](NoLockCycle /\ HoldersRun)
    /\ [][\A t \in Threads :
             HeldBy(t) # {} =>
                 \/ pc'[t] = pc[t]
                 \/ StepsLeft(t)' < StepsLeft(t) /\ (StepsLeft(t)' = 0 => HeldBy(t)' = {})]_vars

\* C14 witness: two threads are inside a = b and b = a at once, each holding
\* the mutex of its source.
C14_Witness ==
    \E t, u \in Threads :
        /\ pc[t] = "assign_value" /\ loc[t].cell = "a" /\ loc[t].src = "b"
        /\ pc[u] = "assign_value" /\ loc[u].cell = "b" /\ loc[u].src = "a"
        /\ HeldBy(t) = {"b"}
        /\ HeldBy(u) = {"a"}

====
